---- MODULE Spec2Model ----
(***************************************************************************)
(* Urban City Parking (src/main.py): the pass registry (PassManager), the  *)
(* fee resolver (FeeCalculator.compute_fee), the hourly pricing strategy,  *)
(* the lot's session bookkeeping (ParkingLot.start_session / end_session), *)
(* the finance records (FinanceModule) and the monthly reports             *)
(* (ReportGenerator).                                                      *)
(*                                                                         *)
(* Representation.                                                         *)
(*  - A str is a sequence of one-character strings: <<" ", "a">>.          *)
(*  - An Optional value is a sequence of length 0 (None) or 1.             *)
(*  - A datetime is a number of seconds since 00:00 of day 0; a date is a  *)
(*    day number; day 0 falls on weekday EpochWeekday (Monday = 0).        *)
(*  - Money inside the pricing loop and an amount of a finance record are *)
(*    in mills (1/1000 of a dollar), a value returned by round(x, 2) is in *)
(*    cents.                                                               *)
(*  - A multiplier is in tenths (1.0 -> 10, 0.8 -> 8, 1.5 -> 15).          *)
(***************************************************************************)
EXTENDS Integers, Sequences, FiniteSets, TLC

VARIABLES
    now,        \* the value datetime.now() returns
    passes,     \* PassManager._passes, in insertion order
    spots,      \* ParkingLot.spots
    by_plate,   \* ParkingLot.active_sessions_by_plate
    by_ticket,  \* ParkingLot.active_sessions_by_ticket
    sessions,   \* the ParkingSession objects, in order of creation; the two
                \* maps and the caller of start_session refer to them by index
    receipts,   \* ParkingLot.completed_receipts
    revenues,   \* FinanceModule.revenues
    expenses,   \* FinanceModule.expenses
    debtors,    \* FinanceModule.debtors
    pass_sales, \* ParkingLot.pass_sales
    tickets,    \* number of ticket identifiers drawn so far
    ret         \* the last call: its operation, its outcome, the registry before it

vars ==
    <<now, passes, spots, by_plate, by_ticket, sessions, receipts, revenues, expenses,
      debtors, pass_sales, tickets, ret>>

lot ==
    <<spots, by_plate, by_ticket, sessions, receipts, revenues, expenses, debtors,
      pass_sales, tickets>>

----------------------------------------------------------------------------
(* Bounds of the model *)

MaxPasses == 2

MaxTickets == 2

MaxDay == 1

EpochWeekday == 4

\* ParkingLot(capacity): the constructor's argument (300 by default)
capacity == 2

\* the number of records (revenues, expenses, receipts) the reports are given
MaxRecords == 3

----------------------------------------------------------------------------
(* Program constants *)

SecondsPerHour == 3600

SecondsPerDay == 86400

WeekendRate == 5

PeakRate == 6

OffPeakRate == 4

PeakStartHour == 8

PeakEndHour == 18

SaturdayWeekday == 5

None == <<>>

Some(x) == <<x>>

----------------------------------------------------------------------------
(* str.strip() and str.upper() over the characters the model uses *)

UpperChar(c) ==
    CASE c = "a" -> "A"
      [] c = "b" -> "B"
      [] c = "p" -> "P"
      [] c = "t" -> "T"
      [] OTHER -> c

Upper(s) == [i \in 1..Len(s) |-> UpperChar(s[i])]

RECURSIVE LStrip(_)
LStrip(s) == IF s # <<>> /\ Head(s) = " " THEN LStrip(Tail(s)) ELSE s

RECURSIVE RStrip(_)
RStrip(s) ==
    IF s # <<>> /\ s[Len(s)] = " " THEN RStrip(SubSeq(s, 1, Len(s) - 1)) ELSE s

Strip(s) == RStrip(LStrip(s))

Normalize(s) == Upper(Strip(s))

----------------------------------------------------------------------------
(* datetime *)

DateOf(t) == t \div SecondsPerDay

HourOf(t) == (t % SecondsPerDay) \div SecondsPerHour

Weekday(t) == (DateOf(t) + EpochWeekday) % 7

is_weekend(t) == Weekday(t) >= SaturdayWeekday

\* the calendar date of day 0: Friday 2 January 2026
Epoch == [year |-> 2026, month |-> 1, day |-> 2]

IsLeap(y) == (y % 4 = 0 /\ y % 100 # 0) \/ y % 400 = 0

DaysInMonth(y, m) ==
    CASE m = 2 -> IF IsLeap(y) THEN 29 ELSE 28
      [] m \in {4, 6, 9, 11} -> 30
      [] OTHER -> 31

\* the calendar date n >= 0 days after the date d
RECURSIVE AddDays(_, _)
AddDays(d, n) ==
    IF d.day + n <= DaysInMonth(d.year, d.month)
    THEN [d EXCEPT !.day = d.day + n]
    ELSE AddDays([year |-> IF d.month = 12 THEN d.year + 1 ELSE d.year,
                  month |-> IF d.month = 12 THEN 1 ELSE d.month + 1,
                  day |-> 1],
                 n - (DaysInMonth(d.year, d.month) - d.day) - 1)

\* strftime("%Y-%m") of a date: the digits of "YYYY-MM" (the dash, always the
\* fifth character, is left out)
strftime_Ym(date) ==
    LET c == AddDays(Epoch, date)
    IN  <<c.year \div 1000, (c.year \div 100) % 10, (c.year \div 10) % 10,
          c.year % 10, c.month \div 10, c.month % 10>>

\* str.__lt__ on two month keys
StrLess(a, b) ==
    \E i \in 1..Len(a) : a[i] < b[i] /\ \A j \in 1..(i - 1) : a[j] = b[j]

----------------------------------------------------------------------------
(* Vehicles *)

VehicleTypes == {"Car", "Motorcycle", "Truck"}

multiplier(vehicle_type) ==
    CASE vehicle_type = "Car" -> 10
      [] vehicle_type = "Motorcycle" -> 8
      [] vehicle_type = "Truck" -> 15

Vehicle(vehicle_type, plate) ==
    [vehicle_type |-> vehicle_type, plate |-> Normalize(plate)]

----------------------------------------------------------------------------
(* Passes *)

IdChars == <<"A", "B", "C", "D", "E", "F">>

NewPassId(k) == <<"P", IdChars[k]>>

NewTicketId(k) == <<"T", "-", IdChars[k]>>

TimeRangeTypes == {"MonthlyPass", "WeeklyPass"}

TimeRangePass(pass_type, pass_id, plate, start_date, end_date) ==
    [pass_id |-> pass_id, plate |-> Normalize(plate), pass_type |-> pass_type,
     start_date |-> start_date, end_date |-> end_date, used |-> FALSE]

SingleEntryPass(pass_id, plate) ==
    [pass_id |-> pass_id, plate |-> Normalize(plate),
     pass_type |-> "SingleEntryPass",
     start_date |-> 0, end_date |-> 0, used |-> FALSE]

is_valid(p, at_time) ==
    IF p.pass_type \in TimeRangeTypes
    THEN p.start_date <= DateOf(at_time) /\ DateOf(at_time) <= p.end_date
    ELSE ~p.used

\* mark_used reaching every single-entry pass of the plate, not one object
mark_used_by_plate(ps, k) ==
    [j \in 1..Len(ps) |->
        IF ps[j].pass_type = "SingleEntryPass" /\ ps[j].plate = ps[k].plate
        THEN [ps[j] EXCEPT !.used = TRUE]
        ELSE ps[j]]

\* mark_used taking the consumed pass out of the registry
mark_used_pop(ps, k) == SubSeq(ps, 1, k - 1) \o SubSeq(ps, k + 1, Len(ps))

mark_used(ps, k) == [ps EXCEPT ![k].used = TRUE]

----------------------------------------------------------------------------
(* Utility functions and the hourly pricing strategy *)

\* math.ceil(duration_seconds / 3600.0), for a negative duration too
CeilDiv(n, d) == IF n % d = 0 THEN n \div d ELSE (n \div d) + 1

Max(a, b) == IF a >= b THEN a ELSE b

\* ceil_hours rounding to the hour below and adding one
ceil_hours_floor_plus_one(duration_seconds) ==
    Max(1, duration_seconds \div SecondsPerHour + 1)

ceil_hours(duration_seconds) == Max(1, CeilDiv(duration_seconds, SecondsPerHour))

\* the peak window opening after the 08:00 hour: 8 < hour < 18
base_rate_peak_after_8(current_time) ==
    IF is_weekend(current_time)
    THEN WeekendRate
    ELSE IF PeakStartHour < HourOf(current_time) /\ HourOf(current_time) < PeakEndHour
         THEN PeakRate
         ELSE OffPeakRate

base_rate(current_time) ==
    IF is_weekend(current_time)
    THEN WeekendRate
    ELSE IF PeakStartHour <= HourOf(current_time) /\ HourOf(current_time) < PeakEndHour
         THEN PeakRate
         ELSE OffPeakRate

\* round(x, 2) of an amount in mills: the nearest cent, a tie to the even cent
Round2(mills) ==
    LET q == mills \div 10
        r == mills % 10
    IN  IF r > 5 \/ (r = 5 /\ q % 2 = 1) THEN q + 1 ELSE q

\* the loop without "current_time += timedelta(hours=1)": every billed hour
\* is charged at the rate of the entry time
RECURSIVE PriceLoopNoAdvance(_, _, _, _)
PriceLoopNoAdvance(total_fee, current_time, hours_left, mult) ==
    IF hours_left = 0
    THEN total_fee
    ELSE PriceLoopNoAdvance(total_fee + base_rate(current_time) * mult * 100,
                            current_time, hours_left - 1, mult)

\* the loop of calculate_price: hours_left iterations from current_time
RECURSIVE PriceLoop(_, _, _, _)
PriceLoop(total_fee, current_time, hours_left, mult) ==
    IF hours_left = 0
    THEN total_fee
    ELSE PriceLoop(total_fee + base_rate(current_time) * mult * 100,
                   current_time + SecondsPerHour, hours_left - 1, mult)

calculate_price(duration_seconds, vehicle, entry_time, exit_time) ==
    Round2(PriceLoop(0, entry_time, ceil_hours(duration_seconds),
                     multiplier(vehicle.vehicle_type)))

rule_name == "Hourly Pricing (Peak/Off-peak/Weekend)"

----------------------------------------------------------------------------
(* Sessions *)

ParkingSession(ticket_id, vehicle, spot_id, entry_time, pass_used, exit_time) ==
    [ticket_id |-> ticket_id, vehicle |-> vehicle, spot_id |-> spot_id,
     entry_time |-> entry_time, pass_used |-> pass_used, exit_time |-> exit_time]

close(session, exit_time) == [session EXCEPT !.exit_time = Some(exit_time)]

duration_seconds(session) ==
    IF session.exit_time = None
    THEN 0
    ELSE session.exit_time[1] - session.entry_time

----------------------------------------------------------------------------
(* PassManager: lookups.  A pass is named by its index in passes. *)

\* get_pass: the index of the pass stored under pass_id.strip().upper(), or 0
get_pass(ps, pass_id) ==
    LET key == Normalize(pass_id)
        found == {k \in 1..Len(ps) : ps[k].pass_id = key}
    IN  IF found = {} THEN 0 ELSE CHOOSE k \in found : TRUE

\* the loop of find_valid_pass, from the k-th stored pass on
RECURSIVE FindValidFrom(_, _, _, _)
FindValidFrom(ps, k, plate, at_time) ==
    IF k > Len(ps) THEN 0
    ELSE IF ps[k].plate = plate /\ is_valid(ps[k], at_time) THEN k
    ELSE FindValidFrom(ps, k + 1, plate, at_time)

\* find_valid_pass comparing the plate as it was given
find_valid_pass_raw_plate(ps, plate, at_time) ==
    FindValidFrom(ps, 1, plate, at_time)

\* find_valid_pass: the index of the first stored pass of the plate that is
\* valid at at_time, or 0
find_valid_pass(ps, plate, at_time) ==
    FindValidFrom(ps, 1, Normalize(plate), at_time)

----------------------------------------------------------------------------
(* FeeCalculator.compute_fee.  The result: raised (the assert failed), the  *)
(* returned tuple (fee, rule, pass_info, applied_pass_type) and marked, the *)
(* index of the pass mark_used() was called on (0: none).  pass_info is the *)
(* pair of the f-string's two parts.  Lines 352-353 need a valid pass that  *)
(* is none of the three pass classes; no such class exists.                 *)
(***************************************************************************)

FeeResult(fee, rule, pass_info, applied_pass_type, marked) ==
    [raised |-> FALSE, fee |-> fee, rule |-> rule, pass_info |-> pass_info,
     applied_pass_type |-> applied_pass_type, marked |-> marked]

FeeRaised ==
    [raised |-> TRUE, fee |-> 0, rule |-> "AssertionError",
     pass_info |-> <<"", "">>, applied_pass_type |-> None, marked |-> 0]

\* auto-detection without the isinstance test: any valid pass found waives
\* the fee, and a single-entry pass is consumed
AutoDetectAnyPass(session, ps, pass_info) ==
    LET auto_p == find_valid_pass(ps, session.vehicle.plate, session.exit_time[1])
    IN  IF auto_p # 0
        THEN FeeResult(0, "Pass Auto-Detected",
                       <<ps[auto_p].pass_type, " VALID (fee waived)">>,
                       Some(ps[auto_p].pass_type),
                       IF ps[auto_p].pass_type = "SingleEntryPass" THEN auto_p ELSE 0)
        ELSE FeeResult(calculate_price(duration_seconds(session), session.vehicle,
                                       session.entry_time, session.exit_time[1]),
                       rule_name, pass_info, None, 0)

AutoDetect(session, ps, pass_info) ==
    LET auto_p == find_valid_pass(ps, session.vehicle.plate, session.exit_time[1])
    IN  IF auto_p # 0 /\ ps[auto_p].pass_type \in TimeRangeTypes
        THEN FeeResult(0, "Pass Auto-Detected",
                       <<ps[auto_p].pass_type, " VALID (fee waived)">>,
                       Some(ps[auto_p].pass_type), 0)
        ELSE FeeResult(calculate_price(duration_seconds(session), session.vehicle,
                                       session.entry_time, session.exit_time[1]),
                       rule_name, pass_info, None, 0)

\* the explicit branch with the call of mark_used() left out
ExplicitPassNoMark(session, ps) ==
    LET p == ps[session.pass_used[1]]
    IN  IF ~is_valid(p, session.exit_time[1])
        THEN AutoDetect(session, ps, <<p.pass_type, " INVALID (charged normally)">>)
        ELSE FeeResult(0,
                       CASE p.pass_type = "MonthlyPass" -> "MonthlyPass Applied"
                         [] p.pass_type = "WeeklyPass" -> "WeeklyPass Applied"
                         [] OTHER -> "SingleEntryPass Applied",
                       <<p.pass_type, " VALID (fee waived)">>, Some(p.pass_type), 0)

ExplicitPass(session, ps) ==
    LET k == session.pass_used[1]
        p == ps[k]
    IN  IF ~is_valid(p, session.exit_time[1])
        THEN AutoDetect(session, ps, <<p.pass_type, " INVALID (charged normally)">>)
        ELSE CASE p.pass_type = "MonthlyPass" ->
                    FeeResult(0, "MonthlyPass Applied",
                              <<"MonthlyPass", " VALID (fee waived)">>,
                              Some("MonthlyPass"), 0)
               [] p.pass_type = "WeeklyPass" ->
                    FeeResult(0, "WeeklyPass Applied",
                              <<"WeeklyPass", " VALID (fee waived)">>,
                              Some("WeeklyPass"), 0)
               [] p.pass_type = "SingleEntryPass" ->
                    FeeResult(0, "SingleEntryPass Applied",
                              <<"SingleEntryPass", " USED (fee waived)">>,
                              Some("SingleEntryPass"), k)

\* compute_fee with its assert not executed: is_valid of a single-entry pass
\* does not read the time, so an unclosed session consumes the pass
compute_fee_no_assert(session, ps) ==
    IF session.exit_time = None
    THEN IF /\ session.pass_used # None
            /\ ps[session.pass_used[1]].pass_type = "SingleEntryPass"
            /\ ~ps[session.pass_used[1]].used
         THEN FeeResult(0, "SingleEntryPass Applied",
                        <<"SingleEntryPass", " USED (fee waived)">>,
                        Some("SingleEntryPass"), session.pass_used[1])
         ELSE FeeRaised
    ELSE IF session.pass_used # None
         THEN ExplicitPass(session, ps)
         ELSE AutoDetect(session, ps, <<"No pass", "">>)

compute_fee(session, ps) ==
    IF session.exit_time = None
    THEN FeeRaised
    ELSE IF session.pass_used # None
         THEN ExplicitPass(session, ps)
         ELSE AutoDetect(session, ps, <<"No pass", "">>)

\* the registry after the call
PassesAfter(ps, res) == IF res.marked = 0 THEN ps ELSE mark_used(ps, res.marked)

----------------------------------------------------------------------------
(* The record of a call in ret: the operation, the exception it raised      *)
(* ("": it returned), the session it was given or returned, the fee         *)
(* resolution, and the registry as it was when the call was made.  A call   *)
(* of a function that takes and returns plain values records them in arg    *)
(* and val.                                                                 *)
(***************************************************************************)

NoFee ==
    [raised |-> FALSE, fee |-> 0, rule |-> "", pass_info |-> <<"", "">>,
     applied_pass_type |-> None, marked |-> 0]

Ret(op, err, session, res) ==
    [op |-> op, err |-> err, session |-> session, res |-> res, before |-> passes,
     arg |-> <<>>, val |-> <<>>]

RetVal(op, arg, val) ==
    [op |-> op, err |-> "", session |-> None, res |-> NoFee, before |-> passes,
     arg |-> arg, val |-> val]

Idle ==
    [op |-> "idle", err |-> "", session |-> None, res |-> NoFee, before |-> <<>>,
     arg |-> <<>>, val |-> <<>>]

----------------------------------------------------------------------------
(* Inputs *)

\* the vehicles that enter the lot
LotVehicleTypes == {"Motorcycle"}

\* the plates passes are sold for: to every caller, and at the lot
PassPlates == {<<" ", "a">>, <<"B">>}

LotPassPlates == {<<" ", "a">>}

\* the plates a caller asks the registry about
QueryPlates == PassPlates \cup {<<"b", " ">>}

\* a plate is any string: the last one reads like a ticket identifier
RawPlates == {<<"A">>, <<" ", "a">>, <<"t", "-", "a">>}

PassDates == 0..MaxDay

\* 17:30 of each day
Times == {d * SecondsPerDay + 63000 : d \in 0..MaxDay}

RawPassIds ==
    {NewPassId(k) : k \in 1..(MaxPasses + 1)} \cup {<<" ", "p", "a">>, <<" ">>}

RawIdentifiers ==
    {NewTicketId(k) : k \in 1..MaxTickets} \cup {<<"t", "-", "a", " ">>} \cup RawPlates

TickSteps == {SecondsPerDay}

\* 07:00, 08:00, 17:00, 17:30, 18:00 and 23:00 of each day
EntryTimes ==
    {d * SecondsPerDay + t : d \in 0..MaxDay,
                             t \in {25200, 28800, 61200, 63000, 64800, 82800}}

\* the dates of the finance records: today, 5 and 6 January, 3 February
RecordDates == {None, Some(3), Some(4), Some(32)}

\* 200.00, 50.00 and 0.006: no sum of them lies halfway between two cents
Amounts == {200000, 50000, 6}

\* the exit times of the receipts: 17:30 of 5 January, 3 and 15 February
ReceiptExits == {d * SecondsPerDay + 63000 : d \in {3, 32, 44}}

\* the dates of the pass sales: 10 and 20 January, 3 February
SaleDates == {8, 18, 32}

\* the prices passes are sold at: free, 50.00
SaleAmounts == {0, 50000}

\* the due dates of the debtors: 2 and 3 December 2025, 3 January 2026
DueDates == {-31, -30, 1}

\* the days debtors are listed on: today, 2 and 3 February 2026
Todays == {None, Some(31), Some(32)}

\* the floats 0.005, 0.065 and 0.5
FloatAmounts ==
    {<<<<1, 4, 7, 10, 14, 1, 4, 7, 10, 14, 1, 4, 7, 11>>, -60>>,
     <<<<1, 0, 10, 3, 13, 7, 0, 10, 3, 13, 7, 0, 10, 4>>, -56>>,
     <<<<1>>, -1>>}

\* durations in seconds, around the hour and the day
Durations == {-3600, 0, 1, 1800, 3600, 3601, 7200, 36000, 86400}

----------------------------------------------------------------------------
(* PassManager: issuing *)

create_monthly_pass(plate, start_date, end_date) ==
    /\ ret = Idle
    /\ Len(passes) < MaxPasses
    /\ passes' = Append(passes, TimeRangePass("MonthlyPass", NewPassId(Len(passes) + 1),
                                              plate, start_date, end_date))
    /\ ret' = Ret("create_monthly_pass", "", None, NoFee)
    /\ UNCHANGED <<now, lot>>

create_weekly_pass(plate, start_date, end_date) ==
    /\ ret = Idle
    /\ Len(passes) < MaxPasses
    /\ passes' = Append(passes, TimeRangePass("WeeklyPass", NewPassId(Len(passes) + 1),
                                              plate, start_date, end_date))
    /\ ret' = Ret("create_weekly_pass", "", None, NoFee)
    /\ UNCHANGED <<now, lot>>

create_single_entry_pass(plate) ==
    /\ ret = Idle
    /\ Len(passes) < MaxPasses
    /\ passes' = Append(passes, SingleEntryPass(NewPassId(Len(passes) + 1), plate))
    /\ ret' = Ret("create_single_entry_pass", "", None, NoFee)
    /\ UNCHANGED <<now, lot>>

----------------------------------------------------------------------------
(* A caller of compute_fee with a session of its own making *)

ComputeFeeCall(session) ==
    LET res == compute_fee(session, passes)
    IN  /\ ret = Idle
        /\ passes' = PassesAfter(passes, res)
        /\ ret' = Ret("compute_fee", IF res.raised THEN "AssertionError" ELSE "",
                      Some(session), res)
        /\ UNCHANGED <<now, lot>>

\* a caller of find_valid_pass
FindValidPassCall(plate, at_time) ==
    /\ ret = Idle
    /\ ret' = RetVal("find_valid_pass", <<plate, at_time>>,
                     <<find_valid_pass(passes, plate, at_time)>>)
    /\ UNCHANGED <<now, passes, lot>>

\* a caller of get_pass
GetPassCall(pass_id) ==
    /\ ret = Idle
    /\ ret' = RetVal("get_pass", <<pass_id>>, <<get_pass(passes, pass_id)>>)
    /\ UNCHANGED <<now, passes, lot>>

\* a caller of ceil_hours
CeilHoursCall(d) ==
    /\ ret = Idle
    /\ ret' = RetVal("ceil_hours", <<d>>, <<ceil_hours(d)>>)
    /\ UNCHANGED <<now, passes, lot>>

\* a caller of calculate_price, with the arguments compute_fee passes for a
\* stay of the vehicle from entry_time to exit_time
CalculatePriceCall(vehicle, entry_time, exit_time) ==
    /\ ret = Idle
    /\ ret' = RetVal("calculate_price",
                     <<exit_time - entry_time, vehicle, entry_time, exit_time>>,
                     <<calculate_price(exit_time - entry_time, vehicle, entry_time,
                                       exit_time)>>)
    /\ UNCHANGED <<now, passes, lot>>

\* the caller takes the result of a call; the next call can follow
Return ==
    /\ ret # Idle
    /\ ret' = Idle
    /\ UNCHANGED <<now, passes, lot>>

\* the pass a caller's session may hold: none, or any stored pass
PassRefs == {None} \cup {Some(k) : k \in 1..Len(passes)}

CallerSession(vehicle_type, plate, entry_time, pass_used, exit_time) ==
    ParkingSession(NewTicketId(1), Vehicle(vehicle_type, plate), 1, entry_time,
                   pass_used, exit_time)

----------------------------------------------------------------------------
(* FinanceModule and ReportGenerator.  An amount is in mills, a report's    *)
(* rounded value in cents.  A dict is the sequence of its (key, value)      *)
(* pairs in insertion order.                                                *)
(***************************************************************************)

\* the tuple add_revenue and add_expense append: (when or date.today(), amount, text)
FinanceRecord(amount, when, text) ==
    <<IF when = None THEN DateOf(now) ELSE when[1], amount, text>>

Records ==
    Len(revenues) + Len(expenses) + Len(receipts) + Len(pass_sales) + Len(debtors)

add_revenue(amount, when, source) ==
    /\ ret = Idle
    /\ Records < MaxRecords
    /\ revenues' = Append(revenues, FinanceRecord(amount, when, source))
    /\ ret' = Ret("add_revenue", "", None, NoFee)
    /\ UNCHANGED <<now, passes, spots, by_plate, by_ticket, sessions, receipts,
                   expenses, tickets, pass_sales, debtors>>

add_expense(amount, when, description) ==
    /\ ret = Idle
    /\ Records < MaxRecords
    /\ expenses' = Append(expenses, FinanceRecord(amount, when, description))
    /\ ret' = Ret("add_expense", "", None, NoFee)
    /\ UNCHANGED <<now, passes, spots, by_plate, by_ticket, sessions, receipts,
                   revenues, tickets, pass_sales, debtors>>

\* the dataclass Debtor
Debtor(name, amount_due, due_date) ==
    [name |-> name, amount_due |-> amount_due, due_date |-> due_date]

\* a debtor that is overdue from the 30th day on
is_over_30_days_from_30(debtor, today) == today - debtor.due_date >= 30

is_over_30_days(debtor, today) == today - debtor.due_date > 30

add_debtor(debtor) ==
    /\ ret = Idle
    /\ Records < MaxRecords
    /\ debtors' = Append(debtors, debtor)
    /\ ret' = Ret("add_debtor", "", None, NoFee)
    /\ UNCHANGED <<now, passes, spots, by_plate, by_ticket, sessions, receipts,
                   revenues, expenses, pass_sales, tickets>>

\* today or date.today()
TodayOr(today) == IF today = None THEN DateOf(now) ELSE today[1]

debtors_over_30_days(fin_debtors, today) ==
    LET t == TodayOr(today)
        over(d) == is_over_30_days(d, t)
    IN  SelectSeq(fin_debtors, over)

\* a caller of debtors_over_30_days
DebtorsOver30DaysCall(today) ==
    /\ ret = Idle
    /\ ret' = RetVal("debtors_over_30_days", <<today>>,
                     <<debtors_over_30_days(debtors, today)>>)
    /\ UNCHANGED <<now, passes, lot>>

DictKeys(d) == {d[i][1] : i \in 1..Len(d)}

\* d.get(key, default)
DictGet(d, key, default) ==
    IF key \in DictKeys(d)
    THEN d[CHOOSE i \in 1..Len(d) : d[i][1] = key][2]
    ELSE default

\* d[key] = value
DictSet(d, key, value) ==
    IF key \in DictKeys(d)
    THEN [i \in 1..Len(d) |-> IF d[i][1] = key THEN <<key, value>> ELSE d[i]]
    ELSE Append(d, <<key, value>>)

\* the loop of the revenue and of the expense report over the first n records
RECURSIVE SumByMonth(_, _)
SumByMonth(records, n) ==
    IF n = 0 THEN <<>>
    ELSE LET by_month == SumByMonth(records, n - 1)
             month_key == strftime_Ym(records[n][1])
         IN  DictSet(by_month, month_key, DictGet(by_month, month_key, 0) + records[n][2])

monthly_revenue_report(fin_revenues) ==
    LET rev_by_month == SumByMonth(fin_revenues, Len(fin_revenues))
    IN  [i \in 1..Len(rev_by_month) |->
            <<rev_by_month[i][1], Round2(rev_by_month[i][2])>>]

monthly_expense_report(fin_expenses) ==
    LET exp_by_month == SumByMonth(fin_expenses, Len(fin_expenses))
    IN  [i \in 1..Len(exp_by_month) |->
            <<exp_by_month[i][1], Round2(exp_by_month[i][2])>>]

\* sorted(keys)
RECURSIVE Sorted(_)
Sorted(keys) ==
    IF keys = {} THEN <<>>
    ELSE LET least == CHOOSE k \in keys : \A other \in keys \ {k} : StrLess(k, other)
         IN  <<least>> \o Sorted(keys \ {least})

\* the profit report over the months of the revenue report only
monthly_profit_report_revenue_months(fin_revenues, fin_expenses) ==
    LET rev == monthly_revenue_report(fin_revenues)
        exp == monthly_expense_report(fin_expenses)
        months == Sorted(DictKeys(rev))
    IN  [i \in 1..Len(months) |->
            <<months[i],
              Round2((DictGet(rev, months[i], 0) - DictGet(exp, months[i], 0)) * 10)>>]

monthly_profit_report(fin_revenues, fin_expenses) ==
    LET rev == monthly_revenue_report(fin_revenues)
        exp == monthly_expense_report(fin_expenses)
        months == Sorted(DictKeys(rev) \cup DictKeys(exp))
    IN  [i \in 1..Len(months) |->
            <<months[i],
              Round2((DictGet(rev, months[i], 0) - DictGet(exp, months[i], 0)) * 10)>>]

PassSale(sold_on, pass_type, amount, pass_id, plate) ==
    [sold_on |-> sold_on, pass_type |-> pass_type, amount |-> amount,
     pass_id |-> pass_id, plate |-> plate]

\* the counters a month starts with
NoSales == [t \in {"WeeklyPass", "MonthlyPass", "SingleEntryPass"} |-> 0]

\* the loop of monthly_pass_sales_report over the first n sales
RECURSIVE SalesByMonth(_, _)
SalesByMonth(sales, n) ==
    IF n = 0 THEN <<>>
    ELSE LET report == SalesByMonth(sales, n - 1)
             month_key == strftime_Ym(sales[n].sold_on)
             counters == DictGet(report, month_key, NoSales)
         IN  DictSet(report, month_key,
                     IF sales[n].pass_type \in DOMAIN counters
                     THEN [counters EXCEPT ![sales[n].pass_type] = @ + 1]
                     ELSE counters)

\* the report with a counter only for the variants that were sold in the month
monthly_pass_sales_report_sold_only(sales) ==
    LET report == SalesByMonth(sales, Len(sales))
    IN  [i \in 1..Len(report) |->
            <<report[i][1],
              [t \in {v \in DOMAIN report[i][2] : report[i][2][v] > 0} |->
                  report[i][2][t]]>>]

monthly_pass_sales_report(sales) == SalesByMonth(sales, Len(sales))

\* a caller of monthly_pass_sales_report with the list of sales
MonthlyPassSalesReportCall ==
    /\ ret = Idle
    /\ ret' = RetVal("monthly_pass_sales_report", <<>>,
                     <<monthly_pass_sales_report(pass_sales)>>)
    /\ UNCHANGED <<now, passes, lot>>

\* the loop of monthly_car_count over the first n receipts: month -> plates
RECURSIVE CarsByMonth(_, _)
CarsByMonth(rs, n) ==
    IF n = 0 THEN <<>>
    ELSE LET cars_by_month == CarsByMonth(rs, n - 1)
             month_key == strftime_Ym(DateOf(rs[n].exit_time))
         IN  DictSet(cars_by_month, month_key,
                     DictGet(cars_by_month, month_key, {}) \cup {rs[n].plate})

\* monthly_car_count counting the receipts of the month
monthly_car_count_receipts(rs) ==
    LET months == CarsByMonth(rs, Len(rs))
    IN  [i \in 1..Len(months) |->
            <<months[i][1],
              Cardinality({k \in 1..Len(rs) :
                              strftime_Ym(DateOf(rs[k].exit_time)) = months[i][1]})>>]

monthly_car_count(rs) ==
    LET cars_by_month == CarsByMonth(rs, Len(rs))
    IN  [i \in 1..Len(cars_by_month) |->
            <<cars_by_month[i][1], Cardinality(cars_by_month[i][2])>>]

\* a caller of monthly_profit_report with the finance module
MonthlyProfitReportCall ==
    /\ ret = Idle
    /\ ret' = RetVal("monthly_profit_report", <<>>,
                     <<monthly_profit_report(revenues, expenses)>>)
    /\ UNCHANGED <<now, passes, lot>>

\* a caller of monthly_car_count with the list of receipts
MonthlyCarCountCall ==
    /\ ret = Idle
    /\ ret' = RetVal("monthly_car_count", <<>>, <<monthly_car_count(receipts)>>)
    /\ UNCHANGED <<now, passes, lot>>


----------------------------------------------------------------------------
(***************************************************************************)
(* Amounts as the floats they are.  A float is the pair of a mantissa of   *)
(* at most 53 binary digits, least significant first, and a binary         *)
(* exponent: the value is mantissa * 2^e.  A sum is rounded to 53 digits,  *)
(* half to even, as the addition of two floats is.                         *)
(***************************************************************************)

MantissaBits == 53

\* the four binary digits of a hexadecimal digit, least significant first
Nibble(h) == <<h % 2, (h \div 2) % 2, (h \div 4) % 2, h \div 8>>

\* the binary digits of a number written in hexadecimal digits
RECURSIVE FromHex(_)
FromHex(hex) ==
    IF hex = <<>> THEN <<>> ELSE FromHex(Tail(hex)) \o Nibble(Head(hex))

\* a number without its leading zeros
RECURSIVE Trim(_)
Trim(bits) ==
    IF bits # <<>> /\ bits[Len(bits)] = 0
    THEN Trim(SubSeq(bits, 1, Len(bits) - 1))
    ELSE bits

\* float.fromhex: the float of a mantissa in hexadecimal digits
fromhex(hex, e) == [m |-> Trim(FromHex(hex)), e |-> e]

\* 0.0
FloatZero == [m |-> <<>>, e |-> 0]

RECURSIVE BitsAdd(_, _, _)
BitsAdd(a, b, carry) ==
    IF a = <<>> /\ b = <<>>
    THEN IF carry = 1 THEN <<1>> ELSE <<>>
    ELSE LET x == IF a = <<>> THEN 0 ELSE Head(a)
             y == IF b = <<>> THEN 0 ELSE Head(b)
             s == x + y + carry
         IN  <<s % 2>> \o BitsAdd(IF a = <<>> THEN <<>> ELSE Tail(a),
                                  IF b = <<>> THEN <<>> ELSE Tail(b), s \div 2)

\* bits * 2^k
ShiftLeft(bits, k) == [i \in 1..k |-> 0] \o bits

\* bits / 2^k rounded to the nearest whole number, half to even
RoundShiftRight(bits, k) ==
    LET quotient == IF k < Len(bits) THEN SubSeq(bits, k + 1, Len(bits)) ELSE <<>>
        half == k >= 1 /\ k <= Len(bits) /\ bits[k] = 1
        below == \E i \in 1..(k - 1) : i <= Len(bits) /\ bits[i] = 1
        odd == quotient # <<>> /\ quotient[1] = 1
    IN  IF half /\ (below \/ odd) THEN BitsAdd(quotient, <<1>>, 0) ELSE quotient

\* the float nearest to bits * 2^e
RoundToFloat(bits, e) ==
    LET exact == Trim(bits)
        drop == Len(exact) - MantissaBits
        kept == RoundShiftRight(exact, drop)
    IN  IF drop <= 0 THEN [m |-> exact, e |-> e]
        ELSE IF Len(kept) > MantissaBits THEN [m |-> Tail(kept), e |-> e + drop + 1]
        ELSE [m |-> kept, e |-> e + drop]

\* x + y of two floats that are not negative
float_add(x, y) ==
    LET e == IF x.e < y.e THEN x.e ELSE y.e
    IN  RoundToFloat(BitsAdd(ShiftLeft(x.m, x.e - e), ShiftLeft(y.m, y.e - e), 0), e)

RECURSIVE BitsValue(_)
BitsValue(bits) ==
    IF bits = <<>> THEN 0 ELSE Head(bits) + 2 * BitsValue(Tail(bits))

\* round(x, 2) in cents: the multiple of 0.01 nearest to the float's value
float_round2(x) ==
    LET hundredfold == BitsAdd(BitsAdd(ShiftLeft(x.m, 6), ShiftLeft(x.m, 5), 0),
                               ShiftLeft(x.m, 2), 0)
    IN  BitsValue(IF x.e >= 0 THEN ShiftLeft(hundredfold, x.e)
                  ELSE RoundShiftRight(hundredfold, -x.e))

\* the loop of the revenue report over the first n records of float amounts
RECURSIVE SumByMonthOfFloats(_, _)
SumByMonthOfFloats(records, n) ==
    IF n = 0 THEN <<>>
    ELSE LET by_month == SumByMonthOfFloats(records, n - 1)
             month_key == strftime_Ym(records[n][1])
         IN  DictSet(by_month, month_key,
                     float_add(DictGet(by_month, month_key, FloatZero), records[n][2]))

\* monthly_revenue_report over records of float amounts
monthly_revenue_report_of_floats(fin_revenues) ==
    LET rev_by_month == SumByMonthOfFloats(fin_revenues, Len(fin_revenues))
    IN  [i \in 1..Len(rev_by_month) |->
            <<rev_by_month[i][1], float_round2(rev_by_month[i][2])>>]

\* a caller of monthly_revenue_report with a finance module of float amounts
MonthlyRevenueReportOfFloatsCall ==
    /\ ret = Idle
    /\ ret' = RetVal("monthly_revenue_report", <<>>,
                     <<monthly_revenue_report_of_floats(revenues)>>)
    /\ UNCHANGED <<now, passes, lot>>
----------------------------------------------------------------------------
(* ParkingLot *)

ParkingSpot(spot_id) ==
    [spot_id |-> spot_id, is_occupied |-> FALSE, current_plate |-> None]

occupy(spot, plate) ==
    [spot EXCEPT !.is_occupied = TRUE, !.current_plate = Some(Normalize(plate))]

vacate(spot) == [spot EXCEPT !.is_occupied = FALSE, !.current_plate = None]

has_availability(sp) == \E i \in 1..Len(sp) : ~sp[i].is_occupied

\* allocate_spot: the first spot that is not occupied (0: the lot is full)
RECURSIVE FirstFree(_, _)
FirstFree(sp, i) ==
    IF i > Len(sp) THEN 0
    ELSE IF ~sp[i].is_occupied THEN i
    ELSE FirstFree(sp, i + 1)

\* release_spot that takes the first spot for out of range
release_spot_above_first(sp, spot_id) ==
    IF 1 < spot_id /\ spot_id <= capacity
    THEN [sp EXCEPT ![spot_id] = vacate(sp[spot_id])]
    ELSE sp

release_spot(sp, spot_id) ==
    IF 1 <= spot_id /\ spot_id <= capacity
    THEN [sp EXCEPT ![spot_id] = vacate(sp[spot_id])]
    ELSE sp

Put(d, k, v) == [x \in DOMAIN d \cup {k} |-> IF x = k THEN v ELSE d[x]]

Del(d, k) == [x \in DOMAIN d \ {k} |-> d[x]]

\* a receipt that records the variant of the pass the session presented,
\* whether the pass waived the fee or not
ReceiptOfPresentedPass(session, res) ==
    [ticket_id |-> session.ticket_id, plate |-> session.vehicle.plate,
     entry_time |-> session.entry_time, exit_time |-> session.exit_time[1],
     fee |-> res.fee, rule |-> res.rule, spot_id |-> session.spot_id,
     vehicle_type |-> session.vehicle.vehicle_type, pass_info |-> res.pass_info,
     applied_pass_type |-> IF session.pass_used = None THEN res.applied_pass_type
                           ELSE Some(passes[session.pass_used[1]].pass_type)]

Receipt(session, res) ==
    [ticket_id |-> session.ticket_id, plate |-> session.vehicle.plate,
     entry_time |-> session.entry_time, exit_time |-> session.exit_time[1],
     fee |-> res.fee, rule |-> res.rule, spot_id |-> session.spot_id,
     vehicle_type |-> session.vehicle.vehicle_type, pass_info |-> res.pass_info,
     applied_pass_type |-> res.applied_pass_type]

\* log_pass_sale that leaves the finance module alone
log_pass_sale_no_revenue(k, amount, sold_on) ==
    /\ ret = Idle
    /\ Len(pass_sales) < MaxPasses
    /\ pass_sales' = Append(pass_sales,
                            PassSale(TodayOr(sold_on), passes[k].pass_type, amount,
                                     passes[k].pass_id, passes[k].plate))
    /\ ret' = Ret("log_pass_sale", "", None, NoFee)
    /\ UNCHANGED <<now, passes, spots, by_plate, by_ticket, sessions, receipts,
                   revenues, expenses, debtors, tickets>>

\* log_pass_sale of the k-th pass of the registry
log_pass_sale(k, amount, sold_on) ==
    /\ ret = Idle
    /\ Len(pass_sales) < MaxPasses
    /\ pass_sales' = Append(pass_sales,
                            PassSale(TodayOr(sold_on), passes[k].pass_type, amount,
                                     passes[k].pass_id, passes[k].plate))
    /\ revenues' = IF amount > 0
                   THEN Append(revenues,
                               FinanceRecord(amount, Some(TodayOr(sold_on)),
                                             <<passes[k].pass_type, " Sale">>))
                   ELSE revenues
    /\ ret' = Ret("log_pass_sale", "", None, NoFee)
    /\ UNCHANGED <<now, passes, spots, by_plate, by_ticket, sessions, receipts,
                   expenses, debtors, tickets>>

\* start_session raising: nothing but ret changes
Raise(op, err) ==
    /\ ret' = Ret(op, err, None, NoFee)
    /\ UNCHANGED <<now, passes, lot>>

\* start_session allocating the spot before it looks the pass up: a rejected
\* pass leaves the spot occupied
start_session_allocates_first(vehicle_type, plate, pass_id) ==
    LET vehicle == Vehicle(vehicle_type, plate)
        p == get_pass(passes, pass_id)
        spot_id == FirstFree(spots, 1)
        session == ParkingSession(NewTicketId(tickets + 1), vehicle, spot_id, now,
                                  IF pass_id # <<>> THEN Some(p) ELSE None, None)
    IN  /\ ret = Idle
        /\ IF vehicle.plate \in DOMAIN by_plate
           THEN Raise("start_session", "ValueError: already active")
           ELSE IF ~has_availability(spots)
           THEN Raise("start_session", "RuntimeError: lot full")
           ELSE IF pass_id # <<>> /\ (p = 0 \/ passes[p].plate # vehicle.plate)
           THEN
             /\ spots' = [spots EXCEPT ![spot_id] = occupy(spots[spot_id], vehicle.plate)]
             /\ ret' = Ret("start_session",
                           IF p = 0 THEN "ValueError: pass not found"
                                    ELSE "ValueError: pass plate mismatch",
                           None, NoFee)
             /\ UNCHANGED <<now, passes, by_plate, by_ticket, sessions,
                            receipts, revenues, expenses, tickets, pass_sales,
                            debtors>>
           ELSE
             /\ tickets < MaxTickets
             /\ spots' = [spots EXCEPT ![spot_id] = occupy(spots[spot_id], vehicle.plate)]
             /\ tickets' = tickets + 1
             /\ sessions' = Append(sessions, session)
             /\ by_plate' = Put(by_plate, vehicle.plate, Len(sessions) + 1)
             /\ by_ticket' = Put(by_ticket, session.ticket_id, Len(sessions) + 1)
             /\ ret' = Ret("start_session", "", Some(session), NoFee)
             /\ UNCHANGED <<now, passes, receipts, revenues, expenses,
                            pass_sales, debtors>>

\* start_session without its first check
start_session_no_active_check(vehicle_type, plate, pass_id) ==
    LET vehicle == Vehicle(vehicle_type, plate)
        p == get_pass(passes, pass_id)
        spot_id == FirstFree(spots, 1)
        session == ParkingSession(NewTicketId(tickets + 1), vehicle, spot_id, now,
                                  IF pass_id # <<>> THEN Some(p) ELSE None, None)
    IN  /\ ret = Idle
        /\ IF ~has_availability(spots)
           THEN Raise("start_session", "RuntimeError: lot full")
           ELSE IF pass_id # <<>> /\ p = 0
           THEN Raise("start_session", "ValueError: pass not found")
           ELSE IF pass_id # <<>> /\ passes[p].plate # vehicle.plate
           THEN Raise("start_session", "ValueError: pass plate mismatch")
           ELSE
             /\ tickets < MaxTickets
             /\ spots' = [spots EXCEPT ![spot_id] = occupy(spots[spot_id], vehicle.plate)]
             /\ tickets' = tickets + 1
             /\ sessions' = Append(sessions, session)
             /\ by_plate' = Put(by_plate, vehicle.plate, Len(sessions) + 1)
             /\ by_ticket' = Put(by_ticket, session.ticket_id, Len(sessions) + 1)
             /\ ret' = Ret("start_session", "", Some(session), NoFee)
             /\ UNCHANGED <<now, passes, receipts, revenues, expenses,
                            pass_sales, debtors>>

start_session(vehicle_type, plate, pass_id) ==
    LET vehicle == Vehicle(vehicle_type, plate)
        p == get_pass(passes, pass_id)
        spot_id == FirstFree(spots, 1)
        session == ParkingSession(NewTicketId(tickets + 1), vehicle, spot_id, now,
                                  IF pass_id # <<>> THEN Some(p) ELSE None, None)
    IN  /\ ret = Idle
        /\ IF vehicle.plate \in DOMAIN by_plate
           THEN Raise("start_session", "ValueError: already active")
           ELSE IF ~has_availability(spots)
           THEN Raise("start_session", "RuntimeError: lot full")
           ELSE IF pass_id # <<>> /\ p = 0
           THEN Raise("start_session", "ValueError: pass not found")
           ELSE IF pass_id # <<>> /\ passes[p].plate # vehicle.plate
           THEN Raise("start_session", "ValueError: pass plate mismatch")
           ELSE
             /\ tickets < MaxTickets
             /\ spots' = [spots EXCEPT ![spot_id] = occupy(spots[spot_id], vehicle.plate)]
             /\ tickets' = tickets + 1
             /\ sessions' = Append(sessions, session)
             /\ by_plate' = Put(by_plate, vehicle.plate, Len(sessions) + 1)
             /\ by_ticket' = Put(by_ticket, session.ticket_id, Len(sessions) + 1)
             /\ ret' = Ret("start_session", "", Some(session), NoFee)
             /\ UNCHANGED <<now, passes, receipts, revenues, expenses,
                            pass_sales, debtors>>

end_session(identifier) ==
    LET key == Normalize(identifier)
    IN  /\ ret = Idle
        /\ IF key \notin DOMAIN by_ticket /\ key \notin DOMAIN by_plate
           THEN Raise("end_session", "ValueError: no active session")
           ELSE
             LET found == IF key \in DOMAIN by_ticket THEN by_ticket[key] ELSE by_plate[key]
                 session == close(sessions[found], now)
                 res == compute_fee(session, passes)
             IN  /\ sessions' = [sessions EXCEPT ![found] = session]
                 /\ passes' = PassesAfter(passes, res)
                 /\ revenues' = IF res.fee > 0
                                 THEN Append(revenues,
                                             FinanceRecord(res.fee * 10,
                                                           Some(DateOf(session.exit_time[1])),
                                                           "Parking Fee"))
                                 ELSE revenues
                 /\ spots' = release_spot(spots, session.spot_id)
                 /\ by_plate' = Del(by_plate, session.vehicle.plate)
                 /\ by_ticket' = Del(by_ticket, session.ticket_id)
                 /\ receipts' = Append(receipts, Receipt(session, res))
                 /\ ret' = Ret("end_session", "", Some(session), res)
                 /\ UNCHANGED <<now, expenses, tickets, pass_sales, debtors>>

\* time passes between two calls
Tick(d) ==
    /\ ret = Idle
    /\ DateOf(now + d) <= MaxDay
    /\ now' = now + d
    /\ UNCHANGED <<passes, lot, ret>>

\* ParkingSession.close called by the caller that start_session returned the
\* session to: the object is the one the two maps refer to
CloseCall(k, exit_time) ==
    /\ ret = Idle
    /\ k \in 1..Len(sessions)
    /\ sessions' = [sessions EXCEPT ![k] = close(sessions[k], exit_time)]
    /\ ret' = Ret("close", "", Some(close(sessions[k], exit_time)), NoFee)
    /\ UNCHANGED <<now, passes, spots, by_plate, by_ticket, receipts, revenues,
                   expenses, tickets, pass_sales, debtors>>

----------------------------------------------------------------------------
(* Specifications *)

Init ==
    /\ now = 63000
    /\ passes = <<>>
    /\ spots = [i \in 1..capacity |-> ParkingSpot(i)]
    /\ by_plate = <<>>
    /\ by_ticket = <<>>
    /\ sessions = <<>>
    /\ receipts = <<>>
    /\ revenues = <<>>
    /\ expenses = <<>>
    /\ debtors = <<>>
    /\ pass_sales = <<>>
    /\ tickets = 0
    /\ ret = Idle

Issue(plates) ==
    \/ \E pl \in plates, sd \in PassDates, ed \in PassDates :
          create_monthly_pass(pl, sd, ed)
    \/ \E pl \in plates, sd \in PassDates, ed \in PassDates :
          create_weekly_pass(pl, sd, ed)
    \/ \E pl \in plates : create_single_entry_pass(pl)

\* the lot in use: passes are sold, vehicles enter and leave, time passes
Next ==
    \/ Issue(LotPassPlates)
    \/ \E vt \in LotVehicleTypes, pl \in RawPlates, id \in RawPassIds \cup {<<>>} :
          start_session(vt, pl, id)
    \/ \E id \in RawIdentifiers : end_session(id)
    \/ \E d \in TickSteps : Tick(d)
    \/ Return

Spec == Init /\ [][Next]_vars

\* the fee resolver called on sessions of every shape over every registry
NextFee ==
    \/ Issue(PassPlates)
    \/ \E vt \in VehicleTypes, pl \in PassPlates, entry \in Times,
          pu \in PassRefs, ex \in {None} \cup {Some(t) : t \in Times} :
          ComputeFeeCall(CallerSession(vt, pl, entry, pu, ex))
    \/ \E pl \in QueryPlates, t \in Times : FindValidPassCall(pl, t)
    \/ \E id \in RawPassIds : GetPassCall(id)
    \/ Return

SpecFee == Init /\ [][NextFee]_vars

\* the pricing functions called on stays of every shape
NextPrice ==
    \/ \E d \in Durations : CeilHoursCall(d)
    \/ \E vt \in VehicleTypes, entry \in EntryTimes, d \in Durations :
          CalculatePriceCall(Vehicle(vt, <<"A">>), entry, entry + d)
    \/ Return

SpecPrice == Init /\ [][NextPrice]_vars

\* a receipt of a caller's making is added to the list the report is given
AppendReceipt(vehicle_type, plate, exit_time) ==
    /\ ret = Idle
    /\ Records < MaxRecords
    /\ receipts' = Append(receipts,
                          Receipt(CallerSession(vehicle_type, plate, exit_time, None,
                                                Some(exit_time)), NoFee))
    /\ ret' = Ret("Receipt", "", None, NoFee)
    /\ UNCHANGED <<now, passes, spots, by_plate, by_ticket, sessions, revenues,
                   expenses, tickets, pass_sales, debtors>>

\* a sale of a caller's making is added to the list the report is given
AppendPassSale(sold_on, pass_type) ==
    /\ ret = Idle
    /\ Records < MaxRecords
    /\ pass_sales' = Append(pass_sales,
                            PassSale(sold_on, pass_type, 50000, NewPassId(1), <<"A">>))
    /\ ret' = Ret("PassSale", "", None, NoFee)
    /\ UNCHANGED <<now, passes, spots, by_plate, by_ticket, sessions, receipts,
                   revenues, expenses, debtors, tickets>>

\* the finance module and the reports over records of every shape
NextReports ==
    \/ \E a \in Amounts, w \in RecordDates : add_revenue(a, w, "Revenue")
    \/ \E a \in Amounts, w \in RecordDates : add_expense(a, w, "Expense")
    \/ \E pl \in PassPlates, ex \in ReceiptExits : AppendReceipt("Car", pl, ex)
    \/ \E d \in SaleDates, t \in TimeRangeTypes \cup {"SingleEntryPass"} :
          AppendPassSale(d, t)
    \/ MonthlyProfitReportCall
    \/ MonthlyCarCountCall
    \/ MonthlyPassSalesReportCall
    \/ Return

SpecReports == Init /\ [][NextReports]_vars

\* the revenue report over revenues of float amounts
NextFloats ==
    \/ \E a \in FloatAmounts, w \in {Some(3), Some(32)} :
          add_revenue(fromhex(a[1], a[2]), w, "Revenue")
    \/ MonthlyRevenueReportOfFloatsCall
    \/ Return

SpecFloats == Init /\ [][NextFloats]_vars

\* the debtors of the finance module and the callers that list them
NextDebtors ==
    \/ \E n \in {"John", "Ann"}, d \in DueDates : add_debtor(Debtor(n, 100000, d))
    \/ \E t \in Todays : DebtorsOver30DaysCall(t)
    \/ Return

SpecDebtors == Init /\ [][NextDebtors]_vars

\* the lot and the sales of its passes: the two sources of revenue
NextLedger ==
    \/ \E pl \in LotPassPlates : create_monthly_pass(pl, 0, 0)
    \/ \E pl \in LotPassPlates : create_single_entry_pass(pl)
    \/ \E k \in 1..Len(passes), a \in SaleAmounts, d \in {None, Some(32)} :
          log_pass_sale(k, a, d)
    \/ \E vt \in LotVehicleTypes, pl \in PassPlates : start_session(vt, pl, <<>>)
    \/ \E id \in RawIdentifiers : end_session(id)
    \/ \E d \in TickSteps : Tick(d)
    \/ Return

SpecLedger == Init /\ [][NextLedger]_vars

\* the lot with more vehicles than spots
NextCrowd ==
    \/ \E pl \in LotPassPlates : create_single_entry_pass(pl)
    \/ \E vt \in LotVehicleTypes, pl \in RawPlates \cup PassPlates,
          id \in RawPassIds \cup {<<>>} : start_session(vt, pl, id)
    \/ \E id \in RawIdentifiers \cup PassPlates : end_session(id)
    \/ \E d \in TickSteps : Tick(d)
    \/ Return

SpecCrowd == Init /\ [][NextCrowd]_vars

\* the lot without passes, and callers that close the sessions they were given
NextClose ==
    \/ \E vt \in LotVehicleTypes, pl \in RawPlates : start_session(vt, pl, <<>>)
    \/ \E id \in RawIdentifiers : end_session(id)
    \/ \E k \in 1..MaxTickets, t \in Times : CloseCall(k, t)
    \/ \E d \in TickSteps : Tick(d)
    \/ Return

SpecClose == Init /\ [][NextClose]_vars

----------------------------------------------------------------------------
(* Vocabulary of the properties: the call recorded in ret *)

FeeCalled == ret.op = "compute_fee"

TheSession == ret.session[1]

TheExit == TheSession.exit_time[1]

Closed == TheSession.exit_time # None

Explicit == TheSession.pass_used # None

\* the pass the session presented, as it was when compute_fee was called
Presented == ret.before[TheSession.pass_used[1]]

ChargedNormally ==
    /\ ret.err = ""
    /\ ret.res.rule = rule_name
    /\ ret.res.fee = calculate_price(TheExit - TheSession.entry_time, TheSession.vehicle,
                                      TheSession.entry_time, TheExit)

InRange(p, day) == p.start_date <= day /\ day <= p.end_date

SamePasses(k) ==
    /\ Len(passes) = Len(ret.before)
    /\ \A j \in 1..Len(passes) : j # k => passes[j] = ret.before[j]

----------------------------------------------------------------------------
(* C1: a closed session opened with an explicit pass that is invalid at the *)
(* exit time is charged the pricing strategy's fee, with no applied pass    *)
(* variant and the explanation "INVALID (charged normally)", whatever else  *)
(* the registry holds: auto-detection is not consulted.                     *)
(***************************************************************************)
C1_InvalidExplicitChargedNormally ==
    (FeeCalled /\ Closed /\ Explicit /\ ~is_valid(Presented, TheExit)) =>
        /\ ChargedNormally
        /\ ret.res.applied_pass_type = None
        /\ ret.res.pass_info[2] = " INVALID (charged normally)"

----------------------------------------------------------------------------
(* C2: a closed session opened without a pass, for whose plate the registry *)
(* holds a monthly or weekly pass whose range includes the exit date, gets  *)
(* fee 0 under the rule "Pass Auto-Detected", whatever other passes the     *)
(* registry holds.                                                          *)
(***************************************************************************)
C2_RangePassAutoDetected ==
    (/\ FeeCalled /\ Closed /\ ~Explicit
     /\ \E k \in 1..Len(ret.before) :
           /\ ret.before[k].pass_type \in TimeRangeTypes
           /\ ret.before[k].plate = TheSession.vehicle.plate
           /\ InRange(ret.before[k], DateOf(TheExit))) =>
        /\ ret.err = ""
        /\ ret.res.fee = 0
        /\ ret.res.rule = "Pass Auto-Detected"

----------------------------------------------------------------------------
(* C3: a single-entry pass that is used stays used and invalid at every     *)
(* later time, and a session that ends presenting a used single-entry pass  *)
(* is charged normally: the pass waives at most one session.                *)
(***************************************************************************)
C3_SingleUseWaivesOnce ==
    [][/\ \A k \in 1..Len(passes) :
             (passes[k].pass_type = "SingleEntryPass" /\ passes[k].used) =>
                 (passes'[k].used /\ ~is_valid(passes'[k], now'))
       /\ (/\ ret = Idle
           /\ ret'.op = "end_session"
           /\ ret'.err = ""
           /\ ret'.session[1].pass_used # None
           /\ passes[ret'.session[1].pass_used[1]].pass_type = "SingleEntryPass"
           /\ passes[ret'.session[1].pass_used[1]].used) =>
              /\ ret'.res.rule = rule_name
              /\ ret'.res.applied_pass_type = None
              /\ ret'.res.fee =
                    calculate_price(duration_seconds(ret'.session[1]),
                                    ret'.session[1].vehicle,
                                    ret'.session[1].entry_time,
                                    ret'.session[1].exit_time[1])]_vars

----------------------------------------------------------------------------
(* C4: compute_fee on a session opened without a pass never reports the     *)
(* applied variant SingleEntryPass and leaves every pass, the used flag of  *)
(* every single-entry pass included, as it was.                             *)
(***************************************************************************)
C4_NoPassNeverConsumesSingle ==
    (FeeCalled /\ ~Explicit) =>
        /\ ret.res.applied_pass_type # Some("SingleEntryPass")
        /\ Len(passes) = Len(ret.before)
        /\ \A k \in 1..Len(passes) : passes[k].used = ret.before[k].used

\* an unused single-entry pass of the plate is stored, and the stay is priced
C4_Witness ==
    /\ FeeCalled /\ ~Explicit /\ Closed
    /\ \E k \in 1..Len(passes) :
          /\ passes[k].pass_type = "SingleEntryPass"
          /\ passes[k].plate = TheSession.vehicle.plate
          /\ ~passes[k].used
    /\ ret.res.rule = rule_name
    /\ ret.res.fee > 0

----------------------------------------------------------------------------
(* C5: a closed session opened with an explicit pass that is valid at the   *)
(* exit time gets fee 0, the rule "<variant> Applied" and the presented     *)
(* pass's variant as the applied variant, for every duration and vehicle;   *)
(* a single-entry pass is marked used by the call.                          *)
(***************************************************************************)
AppliedRule(pass_type) ==
    CASE pass_type = "MonthlyPass" -> "MonthlyPass Applied"
      [] pass_type = "WeeklyPass" -> "WeeklyPass Applied"
      [] pass_type = "SingleEntryPass" -> "SingleEntryPass Applied"

C5_ValidExplicitWaives ==
    (FeeCalled /\ Closed /\ Explicit /\ is_valid(Presented, TheExit)) =>
        /\ ret.err = ""
        /\ ret.res.fee = 0
        /\ ret.res.rule = AppliedRule(Presented.pass_type)
        /\ ret.res.applied_pass_type = Some(Presented.pass_type)
        /\ Presented.pass_type = "SingleEntryPass" =>
              passes[TheSession.pass_used[1]].used

\* a truck's stay of a day, waived by a single-entry pass that is now used
C5_Witness ==
    /\ FeeCalled /\ Closed /\ Explicit
    /\ Presented.pass_type = "SingleEntryPass"
    /\ ~Presented.used
    /\ passes[TheSession.pass_used[1]].used
    /\ TheSession.vehicle.vehicle_type = "Truck"
    /\ TheExit > TheSession.entry_time
    /\ ret.res.fee = 0

----------------------------------------------------------------------------
(* C6: compute_fee changes the registry only when an explicitly presented,  *)
(* valid single-entry pass waives the fee, and then only that pass's used   *)
(* flag; in every other case the stored passes are exactly as before.       *)
(***************************************************************************)
C6_OnlyValidSingleIsMutated ==
    FeeCalled =>
        IF /\ Closed /\ Explicit
           /\ Presented.pass_type = "SingleEntryPass"
           /\ is_valid(Presented, TheExit)
        THEN /\ SamePasses(TheSession.pass_used[1])
             /\ passes[TheSession.pass_used[1]] = [Presented EXCEPT !.used = TRUE]
        ELSE passes = ret.before

\* a pass was consumed while another single-entry pass of the plate was not
C6_Witness ==
    /\ FeeCalled /\ Closed /\ Explicit
    /\ passes # ret.before
    /\ \E j \in 1..Len(passes) :
          /\ j # TheSession.pass_used[1]
          /\ passes[j].pass_type = "SingleEntryPass"
          /\ passes[j].plate = Presented.plate
          /\ ~passes[j].used

----------------------------------------------------------------------------
(* C7: a session whose exit time is earlier than its entry time is rejected *)
(* with an error; no fee is returned for it.                                *)
(***************************************************************************)
C7_NegativeStayRejected ==
    (FeeCalled /\ Closed /\ TheExit < TheSession.entry_time) => ret.err # ""

----------------------------------------------------------------------------
(* C8: compute_fee on a session that is not closed raises instead of        *)
(* returning a fee and leaves the registry as it was.                       *)
(***************************************************************************)
C8_UnclosedRaises ==
    (FeeCalled /\ ~Closed) =>
        /\ ret.err # ""
        /\ ret.res.raised
        /\ passes = ret.before

\* the unclosed session carries an unused single-entry pass
C8_Witness ==
    /\ FeeCalled /\ ~Closed /\ Explicit
    /\ Presented.pass_type = "SingleEntryPass"
    /\ ~Presented.used
    /\ ret.err = "AssertionError"

----------------------------------------------------------------------------
(* C9: no monthly or weekly pass whose end date is before its start date is *)
(* created or stored.                                                       *)
(***************************************************************************)
C9_BadRangeRejected ==
    \A k \in 1..Len(passes) :
        passes[k].pass_type \in TimeRangeTypes =>
            passes[k].start_date <= passes[k].end_date

----------------------------------------------------------------------------
(* C10: start_session given a pass identifier that is not in the registry,  *)
(* or the identifier of a pass of another plate, raises and changes neither *)
(* the spots, the two maps of active sessions, nor any pass.                *)
(***************************************************************************)
NotInRegistry(pass_id) ==
    \A k \in 1..Len(passes) : passes[k].pass_id # Normalize(pass_id)

OfAnotherPlate(pass_id, plate) ==
    \E k \in 1..Len(passes) :
        passes[k].pass_id = Normalize(pass_id) /\ passes[k].plate # Normalize(plate)

C10_BadPassRejected ==
    [][\A vt \in LotVehicleTypes, pl \in RawPlates, id \in RawPassIds :
          (/\ ret = Idle
           /\ ret'.op = "start_session"
           /\ NotInRegistry(id) \/ OfAnotherPlate(id, pl)
           /\ start_session(vt, pl, id)) =>
              /\ ret'.err # ""
              /\ UNCHANGED <<passes, spots, by_plate, by_ticket, sessions, receipts,
                             revenues, tickets>>]_vars

\* a vehicle was turned away for presenting the pass of another plate
C10_Witness ==
    /\ ret.op = "start_session"
    /\ ret.err = "ValueError: pass plate mismatch"
    /\ Len(passes) > 0
    /\ by_plate = <<>>
    /\ \A i \in 1..Len(spots) : ~spots[i].is_occupied

----------------------------------------------------------------------------
(* C11: once the exit time of a session is set, no operation changes it:    *)
(* not close, not end_session by ticket, not end_session by plate.          *)
(***************************************************************************)
C11_ClosedAtMostOnce ==
    [][\A k \in 1..Len(sessions) :
          sessions[k].exit_time # None =>
              sessions'[k].exit_time = sessions[k].exit_time]_vars

----------------------------------------------------------------------------
(* C12: every successful end_session appends exactly one receipt, no ticket *)
(* identifier is on two receipts, and end_session given the identifier of a *)
(* ticket that has already ended fails and appends no receipt.              *)
(***************************************************************************)
EndedTickets == {receipts[i].ticket_id : i \in 1..Len(receipts)}

OneReceiptPerTicket ==
    \A i, j \in 1..Len(receipts) :
        receipts[i].ticket_id = receipts[j].ticket_id => i = j

C12_OneReceiptPerSession ==
    [][/\ (ret = Idle /\ ret'.op = "end_session" /\ ret'.err = "") =>
              /\ Len(receipts') = Len(receipts) + 1
              /\ SubSeq(receipts', 1, Len(receipts)) = receipts
       /\ OneReceiptPerTicket'
       /\ \A id \in RawIdentifiers :
             (Normalize(id) \in EndedTickets /\ end_session(id)) =>
                 (ret'.err # "" /\ receipts' = receipts)]_vars

----------------------------------------------------------------------------
(* C13: in every state each plate has at most one active session, and       *)
(* start_session for a plate that has an active session raises and changes  *)
(* nothing.                                                                 *)
(***************************************************************************)
ActiveSessions ==
    {by_ticket[t] : t \in DOMAIN by_ticket} \cup {by_plate[p] : p \in DOMAIN by_plate}

OneActivePerPlate ==
    \A i, j \in ActiveSessions :
        sessions[i].vehicle.plate = sessions[j].vehicle.plate => i = j

C13_OneActiveSessionPerPlate ==
    [][/\ OneActivePerPlate'
       /\ \A vt \in LotVehicleTypes, pl \in RawPlates, id \in RawPassIds \cup {<<>>} :
             (Normalize(pl) \in DOMAIN by_plate /\ start_session(vt, pl, id)) =>
                 /\ ret'.err # ""
                 /\ UNCHANGED <<now, passes, lot>>]_vars

\* a vehicle was turned away although a spot was free: the plate A has the
\* one active session
C13_Witness ==
    /\ ret.op = "start_session"
    /\ ret.err = "ValueError: already active"
    /\ has_availability(spots)
    /\ DOMAIN by_plate = {<<"A">>}

----------------------------------------------------------------------------
(* Vocabulary of the pricing properties: the call of calculate_price or of  *)
(* ceil_hours recorded in ret, and the quantities the statements name.      *)
(***************************************************************************)
PriceCalled == ret.op = "calculate_price"

PricedVehicle == ret.arg[2]

PricedEntry == ret.arg[3]

PricedExit == ret.arg[4]

\* the returned fee, in cents
PricedFee == ret.val[1]

\* max(1, ceil(d / 3600)): the least h >= 1 with h hours >= d
BilledHours(d) ==
    CHOOSE h \in 1..(Max(d, 0) \div SecondsPerHour + 1) :
        /\ h * SecondsPerHour >= d
        /\ h = 1 \/ (h - 1) * SecondsPerHour < d

\* the hourly rate at a timestamp, in dollars
TierRate(t) ==
    IF Weekday(t) \in {5, 6} THEN 5
    ELSE IF HourOf(t) \in 8..17 THEN 6
    ELSE 4

\* the charge of one hour at rate dollars for a multiplier in tenths, in cents
HourCharge(rate, vehicle_type) == rate * multiplier(vehicle_type) * 10

\* the sum of the charges of the hours i = 0 .. h - 1 that start at entry + i hours
RECURSIVE SumOfHours(_, _, _)
SumOfHours(entry, h, vehicle_type) ==
    IF h = 0 THEN 0
    ELSE SumOfHours(entry, h - 1, vehicle_type)
         + HourCharge(TierRate(entry + (h - 1) * SecondsPerHour), vehicle_type)

SecondOfDay(t) == t % SecondsPerDay

----------------------------------------------------------------------------
(* C14: the fee is the sum, over the billed hours i = 0 .. billedHours - 1, *)
(* of the rate at entry_time + i hours (5.0 on Saturday and Sunday, else    *)
(* 6.0 for an hour in [8,18), else 4.0) times the vehicle's multiplier; a   *)
(* weekday stay entering at 17:00 and billed 2 hours costs 6.0*mult +       *)
(* 4.0*mult; a stay that crosses midnight from Friday to Saturday is at the *)
(* weekend rate from that hour on; the last billed hour is charged in full. *)
(***************************************************************************)
C14_EachHourAtItsOwnRate ==
    PriceCalled =>
        LET h == BilledHours(PricedExit - PricedEntry)
            vt == PricedVehicle.vehicle_type
        IN  /\ PricedFee = SumOfHours(PricedEntry, h, vt)
            /\ (Weekday(PricedEntry) < 5 /\ SecondOfDay(PricedEntry) = 17 * 3600 /\ h = 2) =>
                   PricedFee = HourCharge(6, vt) + HourCharge(4, vt)
            /\ (Weekday(PricedEntry) = 4 /\ HourOf(PricedEntry) = 23 /\ h = 2) =>
                   PricedFee = HourCharge(4, vt) + HourCharge(5, vt)
            /\ (/\ Weekday(PricedEntry) < 5 /\ SecondOfDay(PricedEntry) = 17 * 3600
                /\ PricedExit - PricedEntry = 3601) =>
                   PricedFee = HourCharge(6, vt) + HourCharge(4, vt)

\* a truck enters on Friday at 23:00 and stays one second more than an hour:
\* two billed hours, the second one on Saturday and past the exit time
C14_Witness ==
    /\ PriceCalled
    /\ PricedVehicle.vehicle_type = "Truck"
    /\ Weekday(PricedEntry) = 4 /\ HourOf(PricedEntry) = 23
    /\ PricedExit - PricedEntry = 3601
    /\ PricedFee = 600 + 750

----------------------------------------------------------------------------
(* C15: a stay whose entry and exit both lie in [08:00, 18:00] of one       *)
(* weekday, entry <= exit, costs exactly 6.0 * multiplier * h for its h     *)
(* billed hours.                                                            *)
(***************************************************************************)
PeakWindowStart == 8 * SecondsPerHour

PeakWindowEnd == 18 * SecondsPerHour

C15_PeakStayAtPeakRate ==
    (/\ PriceCalled
     /\ Weekday(PricedEntry) < 5
     /\ DateOf(PricedEntry) = DateOf(PricedExit)
     /\ PricedEntry <= PricedExit
     /\ PeakWindowStart <= SecondOfDay(PricedEntry)
     /\ SecondOfDay(PricedEntry) <= PeakWindowEnd
     /\ PeakWindowStart <= SecondOfDay(PricedExit)
     /\ SecondOfDay(PricedExit) <= PeakWindowEnd) =>
        PricedFee = BilledHours(PricedExit - PricedEntry)
                    * HourCharge(6, PricedVehicle.vehicle_type)

\* C15 as amended: the entry lies in [08:00, 18:00), the exit in
\* [entry, 18:00] of the same weekday
C15_PeakStayEnteredBeforeEnd ==
    (/\ PriceCalled
     /\ Weekday(PricedEntry) < 5
     /\ DateOf(PricedEntry) = DateOf(PricedExit)
     /\ PricedEntry <= PricedExit
     /\ PeakWindowStart <= SecondOfDay(PricedEntry)
     /\ SecondOfDay(PricedEntry) < PeakWindowEnd
     /\ SecondOfDay(PricedExit) <= PeakWindowEnd) =>
        PricedFee = BilledHours(PricedExit - PricedEntry)
                    * HourCharge(6, PricedVehicle.vehicle_type)

\* a car enters at 08:00 of a weekday and leaves at 18:00: ten peak hours
C15_Witness ==
    /\ PriceCalled
    /\ PricedVehicle.vehicle_type = "Car"
    /\ Weekday(PricedEntry) < 5
    /\ SecondOfDay(PricedEntry) = PeakWindowStart
    /\ PricedExit = PricedEntry + 10 * SecondsPerHour
    /\ PricedFee = 6000

----------------------------------------------------------------------------
(* C16: for every duration d in seconds ceil_hours(d) = max(1, ceil(d /     *)
(* 3600)): 1 for d = 0, 1 for d = 3600, 2 for d = 3601, and never less      *)
(* than 1.                                                                  *)
(***************************************************************************)
C16_BilledHours ==
    ret.op = "ceil_hours" =>
        LET d == ret.arg[1]
            billed == ret.val[1]
        IN  /\ billed >= 1
            /\ billed * SecondsPerHour >= d
            /\ billed > 1 => (billed - 1) * SecondsPerHour < d
            /\ d = 0 => billed = 1
            /\ d = 3600 => billed = 1
            /\ d = 3601 => billed = 2

\* one second more than an hour is billed two hours
C16_Witness ==
    /\ ret.op = "ceil_hours"
    /\ ret.arg[1] = 3601
    /\ ret.val[1] = 2

----------------------------------------------------------------------------
(* C17: find_valid_pass(plate, at_time) returns the first pass in insertion *)
(* order whose plate is the trimmed, upper-cased query plate and that is    *)
(* valid at at_time (a monthly or weekly pass: start <= date of at_time <=  *)
(* end; a single-entry pass: not used), none when no stored pass qualifies, *)
(* and changes no state.                                                    *)
(***************************************************************************)
Qualifies(p, plate, at_time) ==
    /\ p.plate = Upper(Strip(plate))
    /\ IF p.pass_type = "SingleEntryPass"
       THEN ~p.used
       ELSE InRange(p, DateOf(at_time))

C17_FirstValidPass ==
    ret.op = "find_valid_pass" =>
        LET plate == ret.arg[1]
            at_time == ret.arg[2]
            found == ret.val[1]
            qualifying == {k \in 1..Len(ret.before) :
                              Qualifies(ret.before[k], plate, at_time)}
        IN  /\ passes = ret.before
            /\ IF qualifying = {}
               THEN found = 0
               ELSE found \in qualifying /\ \A k \in qualifying : found <= k

\* the plate is asked for in lower case with a trailing blank; its first
\* pass is not valid at the time, its second pass is returned
C17_Witness ==
    /\ ret.op = "find_valid_pass"
    /\ ret.arg[1] = <<"b", " ">>
    /\ ret.val[1] = 2
    /\ passes[1].plate = <<"B">>
    /\ passes[1].pass_type \in TimeRangeTypes

----------------------------------------------------------------------------
(* C18: no operation removes a pass: the stored passes only grow in number, *)
(* every stored pass stays the one get_pass returns for its identifier,     *)
(* with its plate, variant and dates unchanged (the used flag of a          *)
(* single-entry pass apart), and get_pass returns a pass that is used or    *)
(* out of its dates as it returns a valid one.                              *)
(***************************************************************************)
SameButUsed(p, q) == [p EXCEPT !.used = FALSE] = [q EXCEPT !.used = FALSE]

C18_PassesNeverDeleted ==
    [][/\ Len(passes') >= Len(passes)
       /\ \A k \in 1..Len(passes) :
             /\ k <= Len(passes')
             /\ get_pass(passes', passes[k].pass_id) = k
             /\ SameButUsed(passes'[k], passes[k])
       /\ ret'.op = "get_pass" =>
             \A k \in 1..Len(passes) :
                 passes[k].pass_id = Upper(Strip(ret'.arg[1])) => ret'.val[1] = k]_vars

\* get_pass returns a single-entry pass that has been used
C18_Witness ==
    /\ ret.op = "get_pass"
    /\ ret.val[1] > 0
    /\ passes[ret.val[1]].pass_type = "SingleEntryPass"
    /\ passes[ret.val[1]].used
    /\ \A t \in Times : ~is_valid(passes[ret.val[1]], t)

----------------------------------------------------------------------------
(* Vocabulary of the report properties *)

\* the month of a key as a number: 202601 for "2026-01"
KeyNumber(key) ==
    key[1] * 100000 + key[2] * 10000 + key[3] * 1000 + key[4] * 100
    + key[5] * 10 + key[6]

ReportKeys(out) == {out[i][1] : i \in 1..Len(out)}

MonthsOf(records) == {strftime_Ym(records[i][1]) : i \in 1..Len(records)}

\* the sum of the amounts of the first n records that are dated in the month
RECURSIVE AmountIn(_, _, _)
AmountIn(records, n, key) ==
    IF n = 0 THEN 0
    ELSE AmountIn(records, n - 1, key)
         + (IF strftime_Ym(records[n][1]) = key THEN records[n][2] ELSE 0)

\* revenue(month), expense(month): the month's total, to the cent; 0 for a
\* month without a record
MonthTotal(records, key) == Round2(AmountIn(records, Len(records), key))

----------------------------------------------------------------------------
(* C19: monthly_profit_report has one entry for each month that has a       *)
(* revenue or an expense record and no other entry, the entries are in      *)
(* ascending order of the month, and each is revenue(month) minus           *)
(* expense(month), the totals of the monthly revenue and expense reports,   *)
(* a side without records counting 0; revenue [(2026-01-05, 200)] and       *)
(* expense [(2026-01-06, 50)] give {"2026-01": 150}.                        *)
(***************************************************************************)
C19_ProfitPerMonth ==
    ret.op = "monthly_profit_report" =>
        LET out == ret.val[1]
        IN  /\ ReportKeys(out) = MonthsOf(revenues) \cup MonthsOf(expenses)
            /\ \A i, j \in 1..Len(out) :
                  i < j => KeyNumber(out[i][1]) < KeyNumber(out[j][1])
            /\ \A i \in 1..Len(out) :
                  out[i][2] = MonthTotal(revenues, out[i][1])
                              - MonthTotal(expenses, out[i][1])
            /\ (/\ revenues = << <<3, 200000, "Revenue">> >>
                /\ expenses = << <<4, 50000, "Expense">> >>) =>
                   out = << << <<2, 0, 2, 6, 0, 1>>, 15000 >> >>

\* February has two revenue records, entered first; January has an expense
\* only and comes first in the report
C19_Witness ==
    /\ ret.op = "monthly_profit_report"
    /\ Len(revenues) = 2
    /\ Len(expenses) = 1
    /\ ret.val[1] = << << <<2, 0, 2, 6, 0, 1>>, -5000 >>,
                       << <<2, 0, 2, 6, 0, 2>>, 20001 >> >>

----------------------------------------------------------------------------
(* C20: monthly_car_count has one entry for each month in which a receipt's *)
(* exit falls and no other entry, and the entry is the number of distinct   *)
(* plates among the receipts that exit in that month: several receipts of a *)
(* plate in one month count once, receipts of a plate in different months   *)
(* count once in each.                                                      *)
(***************************************************************************)
ExitMonth(r) == strftime_Ym(DateOf(r.exit_time))

C20_DistinctPlatesPerMonth ==
    ret.op = "monthly_car_count" =>
        LET out == ret.val[1]
        IN  /\ ReportKeys(out) = {ExitMonth(receipts[k]) : k \in 1..Len(receipts)}
            /\ \A i, j \in 1..Len(out) : out[i][1] = out[j][1] => i = j
            /\ \A i \in 1..Len(out) :
                  out[i][2] = Cardinality({receipts[k].plate :
                                              k \in {n \in 1..Len(receipts) :
                                                        ExitMonth(receipts[n]) = out[i][1]}})

\* one plate leaves twice in February and once in January
C20_Witness ==
    /\ ret.op = "monthly_car_count"
    /\ Len(receipts) = 3
    /\ \A k \in 1..3 : receipts[k].plate = <<"A">>
    /\ ret.val[1] = << << <<2, 0, 2, 6, 0, 2>>, 1 >>, << <<2, 0, 2, 6, 0, 1>>, 1 >> >>

----------------------------------------------------------------------------
(* C21: monthly_pass_sales_report has one entry for each month with a sale  *)
(* and no other entry; the entry holds the three counters WeeklyPass,       *)
(* MonthlyPass and SingleEntryPass, each the number of sales of that        *)
(* variant dated in the month (0 when there is none), and the three sum to  *)
(* the number of sales of the month.                                        *)
(***************************************************************************)
SalesIn(key, pass_types) ==
    Cardinality({k \in 1..Len(pass_sales) :
                    /\ strftime_Ym(pass_sales[k].sold_on) = key
                    /\ pass_sales[k].pass_type \in pass_types})

PassVariants == {"WeeklyPass", "MonthlyPass", "SingleEntryPass"}

C21_SalesPerMonthAndVariant ==
    ret.op = "monthly_pass_sales_report" =>
        LET out == ret.val[1]
        IN  /\ ReportKeys(out) =
                  {strftime_Ym(pass_sales[k].sold_on) : k \in 1..Len(pass_sales)}
            /\ \A i, j \in 1..Len(out) : out[i][1] = out[j][1] => i = j
            /\ \A i \in 1..Len(out) :
                  /\ DOMAIN out[i][2] = PassVariants
                  /\ \A v \in PassVariants : out[i][2][v] = SalesIn(out[i][1], {v})
                  /\ out[i][2]["WeeklyPass"] + out[i][2]["MonthlyPass"]
                     + out[i][2]["SingleEntryPass"]
                     = Cardinality({k \in 1..Len(pass_sales) :
                                       strftime_Ym(pass_sales[k].sold_on) = out[i][1]})

\* a weekly pass sold on 10 January and a monthly pass sold on 20 January
C21_Witness ==
    /\ ret.op = "monthly_pass_sales_report"
    /\ Len(pass_sales) = 2
    /\ pass_sales[1].sold_on = 8 /\ pass_sales[1].pass_type = "WeeklyPass"
    /\ pass_sales[2].sold_on = 18 /\ pass_sales[2].pass_type = "MonthlyPass"
    /\ ret.val[1] = << << <<2, 0, 2, 6, 0, 1>>,
                          [WeeklyPass |-> 1, MonthlyPass |-> 1, SingleEntryPass |-> 0] >> >>

----------------------------------------------------------------------------
(* C22: the reports and the order of the records *)

\* a report as the map it is: its (month, value) pairs without their order
AsMap(report) == {report[i] : i \in 1..Len(report)}

\* the records in the order p
Permuted(records, p) == [i \in 1..Len(records) |-> records[p[i]]]

\* C22: monthly aggregation is order-independent: every permutation of the
\* revenue records gives the monthly revenue report the same month-keyed
\* totals as the order they were added in, and the report leaves the
\* records as they were
C22_RevenueReportOrderIndependent ==
    ret.op = "monthly_revenue_report" =>
        \A p \in Permutations(1..Len(revenues)) :
            AsMap(monthly_revenue_report_of_floats(Permuted(revenues, p)))
                = AsMap(ret.val[1])

----------------------------------------------------------------------------
(* C23: the debtors that are overdue *)

DebtorsCalled == ret.op = "debtors_over_30_days"

\* the day of the call: the one it was given, else today
CallDay == IF ret.arg[1] = None THEN DateOf(now) ELSE ret.arg[1][1]

\* the places in the list of the debtors more than 30 days past due
Overdue == {i \in 1..Len(debtors) : CallDay - debtors[i].due_date > 30}

\* C23: debtors_over_30_days(today) returns, in insertion order, exactly the
\* debtors with today - due_date > 30 days: one 31 days past due is listed,
\* one exactly 30 days past due is not
C23_OverdueAfter30Days ==
    DebtorsCalled =>
        LET listed == ret.val[1]
        IN  /\ Len(listed) = Cardinality(Overdue)
            /\ \A k \in 1..Len(listed) :
                  \E i \in Overdue :
                     /\ Cardinality({j \in Overdue : j < i}) = k - 1
                     /\ listed[k] = debtors[i]

\* a call with a debtor 31 days past due, which is listed, after one exactly
\* 30 days past due, which is not
C23_Witness ==
    /\ DebtorsCalled
    /\ Len(debtors) = 2
    /\ CallDay - debtors[1].due_date = 30
    /\ CallDay - debtors[2].due_date = 31
    /\ ret.val[1] = <<debtors[2]>>

----------------------------------------------------------------------------
(* C24: the validity of a pass and the two ends of the stay *)

\* the k-th pass of the registry is the monthly or weekly pass the stay
\* depends on: the one the session presented, or else the only one of the
\* vehicle's plate
PassOfTheStay(k) ==
    /\ ret.before[k].pass_type \in TimeRangeTypes
    /\ IF Explicit THEN TheSession.pass_used[1] = k
       ELSE /\ ret.before[k].plate = TheSession.vehicle.plate
            /\ \A j \in 1..Len(ret.before) :
                  (/\ j # k
                   /\ ret.before[j].pass_type \in TimeRangeTypes
                   /\ ret.before[j].plate = TheSession.vehicle.plate) => FALSE

\* the range holds the entry date and ends before the exit date
EndsDuringStay(p) ==
    /\ InRange(p, DateOf(TheSession.entry_time))
    /\ p.end_date < DateOf(TheExit)

\* the range starts after the entry date and holds the exit date
StartsDuringStay(p) ==
    /\ p.start_date > DateOf(TheSession.entry_time)
    /\ InRange(p, DateOf(TheExit))

\* C24: the validity of a pass is judged at the exit time only: a monthly or
\* weekly pass, presented or found for the plate, whose range holds the
\* entry date and ends before the exit date gives no waiver and the stay is
\* charged normally, and one whose range starts after the entry date and
\* holds the exit date waives the whole stay
C24_ValidityJudgedAtExit ==
    (FeeCalled /\ Closed) =>
        \A k \in 1..Len(ret.before) :
            PassOfTheStay(k) =>
                /\ EndsDuringStay(ret.before[k]) =>
                      (ChargedNormally /\ ret.res.applied_pass_type = None)
                /\ StartsDuringStay(ret.before[k]) =>
                      /\ ret.err = ""
                      /\ ret.res.fee = 0
                      /\ ret.res.applied_pass_type = Some(ret.before[k].pass_type)

----------------------------------------------------------------------------
(* C25: the fee of a receipt and the pass variant it records *)

Waived(r) == r.fee = 0 /\ r.applied_pass_type # None

PricedNormally(r) == r.rule = rule_name

\* C25: in every receipt the fee is 0 exactly when an applied pass variant
\* is recorded: a waived session has fee 0 and a variant, a normally priced
\* one has no variant and a fee greater than 0
C25_FeeZeroIffPassApplied ==
    \A i \in 1..Len(receipts) :
        /\ receipts[i].fee = 0 <=> receipts[i].applied_pass_type # None
        /\ PricedNormally(receipts[i]) =>
              (receipts[i].applied_pass_type = None /\ receipts[i].fee > 0)
        /\ ~PricedNormally(receipts[i]) => Waived(receipts[i])

\* a waived receipt, and the receipt of a session that presented a pass no
\* longer valid at the exit and was priced normally
C25_Witness ==
    \E i, j \in 1..Len(receipts) :
        /\ Waived(receipts[i])
        /\ PricedNormally(receipts[j])
        /\ receipts[j].pass_info[2] = " INVALID (charged normally)"
        /\ receipts[j].fee > 0
        /\ receipts[j].applied_pass_type = None

----------------------------------------------------------------------------
(* C26: the revenue records, the receipts and the pass sales *)

RECURSIVE SumOfRevenues(_)
SumOfRevenues(n) == IF n = 0 THEN 0 ELSE SumOfRevenues(n - 1) + revenues[n][2]

\* the fees are in cents, the amounts of the records in tenths of a cent
RECURSIVE SumOfFees(_)
SumOfFees(n) == IF n = 0 THEN 0 ELSE SumOfFees(n - 1) + receipts[n].fee * 10

RECURSIVE SumOfSales(_)
SumOfSales(n) == IF n = 0 THEN 0 ELSE SumOfSales(n - 1) + pass_sales[n].amount

IsParkingFee(record) == record[3] = "Parking Fee"

IsCharged(receipt) == receipt.fee > 0

\* the parking-fee record the receipt of a charged session stands for
FeeRecordOf(receipt) ==
    <<DateOf(receipt.exit_time), receipt.fee * 10, "Parking Fee">>

ChargedReceipts == SelectSeq(receipts, IsCharged)

\* C26: after any sequence of log_pass_sale, start_session and end_session
\* calls the total of the revenue records is the sum of the fees of all
\* receipts plus the sum of the amounts of all pass sales, and the
\* parking-fee records are, one for one, those of the charged sessions,
\* each dated by the exit date of its session
C26_RevenueConserved ==
    /\ SumOfRevenues(Len(revenues))
          = SumOfFees(Len(receipts)) + SumOfSales(Len(pass_sales))
    /\ SelectSeq(revenues, IsParkingFee)
          = [i \in 1..Len(ChargedReceipts) |-> FeeRecordOf(ChargedReceipts[i])]

\* a paid and a free pass sale, a waived stay, and a stay charged on the day
\* after the vehicle entered
C26_Witness ==
    /\ \E i, j \in 1..Len(pass_sales) :
          pass_sales[i].amount > 0 /\ pass_sales[j].amount = 0
    /\ \E i, j \in 1..Len(receipts) :
          /\ receipts[i].fee = 0
          /\ receipts[j].fee > 0
          /\ DateOf(receipts[j].exit_time) > DateOf(receipts[j].entry_time)
    /\ Len(revenues) = 2

----------------------------------------------------------------------------
(* C27: the spots, the two maps and the active sessions *)

OccupiedSpots == {i \in 1..Len(spots) : spots[i].is_occupied}

SessionsByPlate == {by_plate[p] : p \in DOMAIN by_plate}

SessionsByTicket == {by_ticket[t] : t \in DOMAIN by_ticket}

\* the active sessions that hold the spot
HoldersOf(spot) == {i \in ActiveSessions : sessions[i].spot_id = spot.spot_id}

BookkeepingConsistent ==
    /\ SessionsByPlate = SessionsByTicket
    /\ Cardinality(DOMAIN by_plate) = Cardinality(SessionsByPlate)
    /\ Cardinality(DOMAIN by_ticket) = Cardinality(SessionsByTicket)
    /\ Cardinality(OccupiedSpots) = Cardinality(ActiveSessions)
    /\ Cardinality(ActiveSessions) <= capacity
    /\ \A i \in OccupiedSpots :
          /\ Cardinality(HoldersOf(spots[i])) = 1
          /\ \A k \in HoldersOf(spots[i]) :
                spots[i].current_plate = Some(sessions[k].vehicle.plate)

FullLotRejects ==
    (ret = Idle /\ ret'.op = "start_session" /\ ~has_availability(spots)) =>
        /\ ret'.err # ""
        /\ UNCHANGED <<spots, by_plate, by_ticket>>

\* C27: in every reachable state the two maps hold the same active sessions,
\* the occupied spots are as many as the active sessions and never more
\* than the capacity, each occupied spot is held by exactly one active
\* session, whose plate is the spot's current plate; and start_session on a
\* full lot fails without changing a spot or a map
C27_BookkeepingConsistent ==
    [][BookkeepingConsistent /\ BookkeepingConsistent' /\ FullLotRejects]_vars

\* a vehicle that is not in the lot is turned away from the full lot
C27_Witness ==
    /\ ret.op = "start_session"
    /\ ret.err = "RuntimeError: lot full"
    /\ Cardinality(OccupiedSpots) = capacity
    /\ Cardinality(ActiveSessions) = capacity

====
